---- MODULE Spec2Model ----
(***************************************************************************)
(* The planner of src/planner.py: the capability registry, the plan table, *)
(* the readiness pass and the execution engine (execute_step and the wave  *)
(* loop of execute_full_plan).                                             *)
(***************************************************************************)
EXTENDS Integers, Sequences, FiniteSets, TLC

\* ------------------------------------------------------------ bounds
\* number of raw steps of a generated plan
MaxSteps == 3
\* number of raw steps of a generated plan that varies ids, tools and requirements
MaxCapSteps == 2
\* length of the results list of one execute_full_plan call
MaxResults == 5

\* ------------------------------------------------------------ StepStatus
PENDING == "pending"
READY == "ready"
EXECUTING == "executing"
COMPLETED == "completed"
FAILED == "failed"
NEEDS_TOOL == "needs_tool"

\* Python's None, an absent key of a parsed step, a dependency entry that is not
\* hashable (a JSON list or object where a step id is expected) and one that is
\* hashable but no string (a JSON number)
NoneVal == "None"
Absent == "absent"
Unhashable == "unhashable"
IntDep == "int"
NonStrDeps == {Unhashable, IntDep}

\* ------------------------------------------------------------ registry
\* a ToolCapability: its name and its contract (description, schemas and
\* examples, held as one value)
Capability(name, description) == [name |-> name, description |-> description]

\* self.tools, a dict, is held as the sequence of its values in key order
BuiltinTools ==
    <<Capability("llm_generate", "builtin"), Capability("memory_search_topics", "builtin"),
      Capability("memory_get_facts", "builtin"), Capability("memory_save_fact", "builtin")>>

\* names a host registers after construction
RegNames == {"image_gen"}

RegCaps == {Capability(n, "v1") : n \in RegNames}

ToolNames(t) == {t[i].name : i \in 1..Len(t)}

\* a registry that moves a replaced capability to the end
RegisterIntoMovesToEnd(t, cap) ==
    Append(SelectSeq(t, LAMBDA c : c.name # cap.name), cap)

\* self.tools[capability.name] = capability: a dict keeps the position of a key
\* that is already present and replaces its value
RegisterInto(t, cap) ==
    IF cap.name \in ToolNames(t)
    THEN [i \in 1..Len(t) |-> IF t[i].name = cap.name THEN cap ELSE t[i]]
    ELSE Append(t, cap)

\* ToolCapability.to_prompt: the name in brackets, then the contract
ToPrompt(cap) == <<"[", cap.name, "]", cap.description>>

ManifestHeader == <<"# Available Tools">>

\* get_tool_manifest: the header, then for every value of self.tools, in key
\* order, its prompt and an empty line
ToolManifest(t) ==
    [k \in 1..(2 * Len(t) + 1) |->
        IF k = 1 THEN ManifestHeader
        ELSE IF k % 2 = 0 THEN ToPrompt(t[k \div 2]) ELSE <<>>]

\* ------------------------------------------------------------ plan generation
\* a deferred requirement as parsed from the reply
ToolReq(name) == [type |-> "tool", name |-> name]

InfoReq(name) == [type |-> "info", name |-> name]

\* a requirement entry that is not an object (a bare string in the reply)
BadReq == [type |-> "not_a_dict", name |-> NoneVal]

SynthId(n) == CASE n = 1 -> "step_1" [] n = 2 -> "step_2" [] n = 3 -> "step_3"
                [] n = 4 -> "step_4" [] OTHER -> "step_n"

\* PlanStep(id=s.get("id", f"step_{len(steps)+1}"), ..., status=PENDING); the raw
\* steps of the model carry no description, tool_input or expected_output, so
\* these get their defaults
NewStep(s, n) ==
    [id |-> IF s.id = Absent THEN SynthId(n) ELSE s.id,
     description |-> "",
     tool |-> s.tool,
     tool_input |-> <<>>,
     expected_output |-> "",
     depends_on |-> s.depends_on,
     deferred_requirements |-> s.deferred_requirements,
     status |-> PENDING,
     output_data |-> NoneVal,
     error |-> NoneVal]

BuildSteps(raw) == [n \in 1..Len(raw) |-> NewStep(raw[n], n)]

\* the goal a caller hands to create_plan
Goal == "goal"

\* Plan(id=..., goal=goal, complexity=Complexity(data["complexity"]), steps=steps,
\* context={...}); the context holds no output entry yet
NewPlan(pid, complexity, steps) ==
    [id |-> pid, goal |-> Goal, complexity |-> complexity, steps |-> steps,
     context |-> <<>>]

\* ------------------------------------------------------------ readiness pass
\* a completed set that also takes the steps that are READY
CompletedOrReadyIds(steps) ==
    {steps[i].id : i \in {j \in 1..Len(steps) : steps[j].status \in {COMPLETED, READY}}}

CompletedIds(steps) == {steps[i].id : i \in {j \in 1..Len(steps) : steps[j].status = COMPLETED}}

\* a pass that never looks at the registry
UnmetIgnoringRegistry(step, names) == {}

\* [r for r in step.deferred_requirements
\*    if r.get("type") == "tool" and r.get("name") not in self.tools]
Unmet(step, names) ==
    {k \in 1..Len(step.deferred_requirements) :
        /\ step.deferred_requirements[k].type = "tool"
        /\ step.deferred_requirements[k].name \notin names}

\* all(dep in completed for dep in step.depends_on): the generator stops at the
\* first dependency that is not completed; hashing an unhashable one raises
FirstStop(deps, completed) ==
    LET stops == {k \in 1..Len(deps) : deps[k] = Unhashable \/ deps[k] \notin completed}
    IN IF stops = {} THEN 0 ELSE CHOOSE k \in stops : \A m \in stops : k <= m

\* a check that passes every dependency list
DepCheckPassesAll(deps, completed) == "all"

\* a check that only passes an empty dependency list
DepCheckEmptyOnly(deps, completed) ==
    IF deps = <<>> THEN "all"
    ELSE IF FirstStop(deps, completed) # 0 /\ deps[FirstStop(deps, completed)] = Unhashable
    THEN "raise" ELSE "unmet"

DepCheck(deps, completed) ==
    LET k == FirstStop(deps, completed)
    IN IF k = 0 THEN "all" ELSE IF deps[k] = Unhashable THEN "raise" ELSE "unmet"

\* the indices of a set in increasing order
RECURSIVE SortedSeq(_)
SortedSeq(S) ==
    IF S = {} THEN <<>>
    ELSE LET m == CHOOSE x \in S : \A y \in S : x <= y
         IN <<m>> \o SortedSeq(S \ {m})

\* one assignment to a step's status: the step's position, the old and new value
Trans(i, from, to) == [step |-> i, from |-> from, to |-> to]

\* a pass that makes a FAILED step READY again
StepPassRetry(step, names, completed) ==
    IF step.status = FAILED THEN READY
    ELSE IF step.status # PENDING THEN "skip"
    ELSE IF Unmet(step, names) # {} THEN NEEDS_TOOL
    ELSE IF DepCheck(step.depends_on, completed) = "all" THEN READY ELSE "skip"

\* what one iteration of the loop over plan.steps does to a step
StepPass(step, names, completed) ==
    IF step.status # PENDING THEN "skip"
    ELSE IF \E k \in 1..Len(step.deferred_requirements) : step.deferred_requirements[k] = BadReq
         THEN "raise"
    ELSE IF Unmet(step, names) # {} THEN NEEDS_TOOL
    ELSE LET d == DepCheck(step.depends_on, completed)
         IN IF d = "all" THEN READY ELSE IF d = "raise" THEN "raise" ELSE "skip"

\* a pass that empties the dependency list of every step it makes READY
UpdateReadyStatusConsumingDeps(steps, names) ==
    LET completed == CompletedIds(steps)
        raising == {i \in 1..Len(steps) : StepPass(steps[i], names, completed) = "raise"}
        stop == IF raising = {} THEN Len(steps) + 1
                ELSE CHOOSE i \in raising : \A m \in raising : i <= m
        changed == {i \in 1..Len(steps) :
                        i < stop /\ StepPass(steps[i], names, completed) \in {READY, NEEDS_TOOL}}
        upd(i) == IF i \in changed
                  THEN [steps[i] EXCEPT !.status = StepPass(steps[i], names, completed),
                                        !.depends_on = <<>>]
                  ELSE steps[i]
        order == SortedSeq(changed)
    IN [steps |-> [i \in 1..Len(steps) |-> upd(i)],
        raised |-> raising # {},
        trans |-> [k \in 1..Len(order) |->
                      Trans(order[k], PENDING, StepPass(steps[order[k]], names, completed))]]

\* _update_ready_status: `completed` is computed once, the steps are visited in
\* plan order, and an exception leaves the steps already visited updated
UpdateReadyStatus(steps, names) ==
    LET completed == CompletedIds(steps)
        raising == {i \in 1..Len(steps) : StepPass(steps[i], names, completed) = "raise"}
        stop == IF raising = {} THEN Len(steps) + 1
                ELSE CHOOSE i \in raising : \A m \in raising : i <= m
        changed == {i \in 1..Len(steps) :
                        i < stop /\ StepPass(steps[i], names, completed) \in {READY, NEEDS_TOOL}}
        upd(i) == IF i \in changed
                  THEN [steps[i] EXCEPT !.status = StepPass(steps[i], names, completed)]
                  ELSE steps[i]
        order == SortedSeq(changed)
    IN [steps |-> [i \in 1..Len(steps) |-> upd(i)],
        raised |-> raising # {},
        trans |-> [k \in 1..Len(order) |->
                      Trans(order[k], PENDING, StepPass(steps[order[k]], names, completed))]]

ReadyIdx(steps) == {i \in 1..Len(steps) : steps[i].status = READY}

\* ------------------------------------------------------------ handlers
Outcome(kind, value, cause) == [kind |-> kind, value |-> value, cause |-> cause]

\* what the handler chosen by execute_step can do: return a result or raise.
\* _execute_save_fact catches the collaborator's error and returns a failure
\* record; it raises only when tool_input is not a mapping.  The branch for an
\* unrecognised tool name builds a string and cannot raise.
HandlerOutcomes(tool) ==
    CASE tool \in {NoneVal, "llm_generate"} ->
            {Outcome("ok", "text", "ok"), Outcome("raise", "backend_error", "backend")}
      [] tool = "memory_search_topics" ->
            {Outcome("ok", "topics", "ok"), Outcome("raise", "memory_error", "memory")}
      [] tool = "memory_get_facts" ->
            {Outcome("ok", "facts", "ok"), Outcome("raise", "memory_error", "memory")}
      [] tool = "memory_save_fact" ->
            {Outcome("ok", "success_true", "ok"),
             Outcome("ok", "success_false", "save_fact_error"),
             Outcome("raise", "attribute_error", "bad_input")}
      [] OTHER -> {Outcome("ok", "not_implemented", "ok")}

\* a lookup that falls back on the first step when no step has the id
FindStepOrFirst(steps, sid) ==
    LET hits == {i \in 1..Len(steps) : steps[i].id = sid}
    IN IF hits = {} THEN (IF steps = <<>> THEN 0 ELSE 1)
       ELSE CHOOSE i \in hits : \A m \in hits : i <= m

\* next((s for s in plan.steps if s.id == step_id), None); 0 stands for None
FindStep(steps, sid) ==
    LET hits == {i \in 1..Len(steps) : steps[i].id = sid}
    IN IF hits = {} THEN 0 ELSE CHOOSE i \in hits : \A m \in hits : i <= m

\* execute_step from its try block on (lines 415-443) for step i: the handler
\* returns or raises (o); on a return the step is COMPLETED, its output is
\* stored in the step and in the plan context and a readiness pass runs; the
\* except clause turns a raise of the handler or of the pass into FAILED with
\* the error text
RunHandler(plan, i, o, names) ==
    IF o.kind = "raise"
    THEN [plan |-> [plan EXCEPT !.steps[i].status = FAILED, !.steps[i].error = o.value],
          result |-> NoneVal,
          trans |-> <<Trans(i, plan.steps[i].status, FAILED)>>]
    ELSE LET done == [plan.steps EXCEPT ![i].status = COMPLETED, ![i].output_data = o.value]
             ctx == (plan.steps[i].id :> o.value) @@ plan.context
             pass == UpdateReadyStatus(done, names)
             tr == <<Trans(i, plan.steps[i].status, COMPLETED)>> \o pass.trans
         IN IF pass.raised
            THEN [plan |-> [plan EXCEPT !.steps = [pass.steps EXCEPT ![i].status = FAILED,
                                                                     ![i].error = "type_error"],
                                        !.context = ctx],
                  result |-> NoneVal,
                  trans |-> Append(tr, Trans(i, COMPLETED, FAILED))]
            ELSE [plan |-> [plan EXCEPT !.steps = pass.steps, !.context = ctx],
                  result |-> o.value, trans |-> tr]

\* an execute_step without its try/except: the handler's exception leaves the
\* call and the step stays EXECUTING
ExecStepNoCatch(plan, sid, o, names) ==
    LET i == FindStep(plan.steps, sid)
    IN IF i = 0
       THEN [plan |-> plan, result |-> NoneVal, raised |-> FALSE, dispatched |-> 0, trans |-> <<>>]
       ELSE IF plan.steps[i].status # READY
       THEN [plan |-> plan, result |-> NoneVal, raised |-> FALSE, dispatched |-> 0, trans |-> <<>>]
       ELSE IF o.kind = "raise"
       THEN [plan |-> [plan EXCEPT !.steps[i].status = EXECUTING],
             result |-> NoneVal, raised |-> TRUE, dispatched |-> i,
             trans |-> <<Trans(i, READY, EXECUTING)>>]
       ELSE LET done == [plan.steps EXCEPT ![i].status = COMPLETED, ![i].output_data = o.value]
                ctx == (plan.steps[i].id :> o.value) @@ plan.context
                pass == UpdateReadyStatus(done, names)
                tr == <<Trans(i, READY, EXECUTING), Trans(i, EXECUTING, COMPLETED)>> \o pass.trans
            IN [plan |-> [plan EXCEPT !.steps = pass.steps, !.context = ctx],
                result |-> o.value, raised |-> pass.raised, dispatched |-> i, trans |-> tr]

\* execute_step on a plan of the table, with the handler's outcome o.
\* result: the plan after the call, the value returned, whether an exception left
\* the call, the index of the step whose handler ran (0 when none did) and the
\* assignments made to step statuses, in order.
ExecStep(plan, sid, o, names) ==
    LET i == FindStep(plan.steps, sid)
    IN IF i = 0
       THEN [plan |-> plan, result |-> NoneVal, raised |-> FALSE, dispatched |-> 0, trans |-> <<>>]
       ELSE IF plan.steps[i].status # READY
       THEN [plan |-> plan, result |-> NoneVal, raised |-> FALSE, dispatched |-> 0, trans |-> <<>>]
       ELSE IF o.kind = "raise"
       THEN [plan |-> [plan EXCEPT !.steps[i].status = FAILED, !.steps[i].error = o.value],
             result |-> NoneVal, raised |-> FALSE, dispatched |-> i,
             trans |-> <<Trans(i, READY, EXECUTING), Trans(i, EXECUTING, FAILED)>>]
       ELSE LET done == [plan.steps EXCEPT ![i].status = COMPLETED, ![i].output_data = o.value]
                ctx == (plan.steps[i].id :> o.value) @@ plan.context
                pass == UpdateReadyStatus(done, names)
                tr == <<Trans(i, READY, EXECUTING), Trans(i, EXECUTING, COMPLETED)>> \o pass.trans
            IN IF pass.raised
               THEN [plan |-> [plan EXCEPT !.steps = [pass.steps EXCEPT ![i].status = FAILED,
                                                                        ![i].error = "type_error"],
                                           !.context = ctx],
                     result |-> NoneVal, raised |-> FALSE, dispatched |-> i,
                     trans |-> Append(tr, Trans(i, COMPLETED, FAILED))]
               ELSE [plan |-> [plan EXCEPT !.steps = pass.steps, !.context = ctx],
                     result |-> o.value, raised |-> FALSE, dispatched |-> i, trans |-> tr]

\* Plan.to_readable: one block per step, in plan order, led by the icon of the
\* step's status
StatusIcon(st) ==
    CASE st = PENDING -> "open_circle" [] st = READY -> "left_half"
      [] st = EXECUTING -> "right_half" [] st = COMPLETED -> "full_circle"
      [] st = FAILED -> "cross" [] st = NEEDS_TOOL -> "question"
      [] OTHER -> "open_circle"

\* ', '.join(step.depends_on) raises TypeError on an entry that is no string
ReadableRaises(plan) ==
    \E i \in 1..Len(plan.steps) : \E k \in 1..Len(plan.steps[i].depends_on) :
        plan.steps[i].depends_on[k] \in NonStrDeps

ToReadable(plan) ==
    [i \in 1..Len(plan.steps) |->
        [icon |-> StatusIcon(plan.steps[i].status),
         tool |-> IF plan.steps[i].tool = NoneVal THEN "LLM" ELSE plan.steps[i].tool,
         depends |-> plan.steps[i].depends_on,
         output |-> plan.steps[i].output_data]]

\* ------------------------------------------------------------ inputs
PlanIds == {"plan_1"}

\* ids a caller may pass: the ids of the table and one that is in no table
PlanIdArgs == PlanIds \cup {"plan_x"}

StepIdArgs == {"step_1", "step_2", "step_3", "step_x"}

DepLists == {<<>>, <<"step_1">>, <<"step_2">>, <<"step_1", "step_2">>,
             <<"step_1", Unhashable>>, <<IntDep>>, <<"step_9">>}

RawStep(id, tool, deps, reqs) ==
    [id |-> id, tool |-> tool, depends_on |-> deps, deferred_requirements |-> reqs]

\* steps that vary in id and dependency list
DepRawSteps == {RawStep(id, NoneVal, d, <<>>) : id \in {Absent, "step_1"}, d \in DepLists}

\* steps that vary in id, tool and deferred requirements
CapRawSteps ==
    {RawStep(id, t, d, r) : id \in {Absent, "step_1"},
                            t \in {NoneVal, "memory_save_fact", "image_gen"},
                            d \in {<<>>, <<"step_1">>, <<"step_1", Unhashable>>},
                            r \in {<<>>, <<ToolReq("image_gen")>>}}

SeqsUpTo(S, n) == UNION {[1..k -> S] : k \in 1..n}

RawPlans == {<<>>} \cup SeqsUpTo(DepRawSteps, MaxSteps) \cup SeqsUpTo(CapRawSteps, MaxCapSteps)

\* Complexity
Complexities == {"atomic", "simple", "moderate", "complex"}

\* what create_plan gets from the backend: whether ollama.chat raised, what
\* _extract_json and json.loads make of the reply ("none": nothing extracted,
\* "invalid": a string json.loads rejects, "value": JSON that is no object,
\* "object"), the keys of the object, and its
\* "complexity" and "steps" members
Reply(backend, json, keys, complexity, steps) ==
    [backend |-> backend, json |-> json, keys |-> keys, complexity |-> complexity,
     steps |-> steps]

BothKeys == {"complexity", "steps"}

\* replies whose plan is built
GoodReplies == {Reply("ok", "object", BothKeys, "simple", raw) : raw \in RawPlans}

OneRawStep == <<RawStep(Absent, NoneVal, <<>>, <<>>)>>

\* replies on which create_plan raises before it builds a plan
BadReplies ==
    {Reply("raise", "none", {}, Absent, <<>>),
     Reply("ok", "none", {}, Absent, <<>>),
     Reply("ok", "value", {}, Absent, <<>>),
     Reply("ok", "object", {"steps"}, Absent, OneRawStep),
     Reply("ok", "object", {"complexity"}, "simple", <<>>),
     Reply("ok", "object", BothKeys, "bogus", OneRawStep)}

\* the replies with up to MaxCapSteps steps
SmallGoodReplies == {r \in GoodReplies : Len(r.steps) <= MaxCapSteps}

\* a create_plan that takes any complexity value
CreateStageAnyComplexity(reply) ==
    IF reply.backend = "raise" THEN "backend_error"
    ELSE IF reply.json = "none" THEN "no_json"
    ELSE IF reply.json = "invalid" THEN "decode_error"
    ELSE IF reply.json = "value" THEN "not_an_object"
    ELSE IF "complexity" \notin reply.keys \/ "steps" \notin reply.keys THEN "missing_fields"
    ELSE "built"

\* how far create_plan gets on a reply: the exception that ends it before the
\* readiness pass, or "built" when the Plan object is constructed
CreateStage(reply) ==
    IF reply.backend = "raise" THEN "backend_error"
    ELSE IF reply.json = "none" THEN "no_json"
    ELSE IF reply.json = "invalid" THEN "decode_error"
    ELSE IF reply.json = "value" THEN "not_an_object"
    ELSE IF "complexity" \notin reply.keys \/ "steps" \notin reply.keys THEN "missing_fields"
    ELSE IF reply.complexity \notin Complexities THEN "bad_complexity"
    ELSE "built"

\* ------------------------------------------------------------ extraction
\* A reply text is a sequence of tokens: the two braces, a member key with its
\* colon, a JSON literal, a word of prose, a newline and a fence marker (three
\* backquotes).
LBrace == "{"
RBrace == "}"
Key == "key:"
Null == "null"
Word == "word"
NL == "\n"
Fence == "fence"

Alphabet == {LBrace, RBrace, Key, Null, Word, NL, Fence}

Tokens(text) == {text[i] : i \in 1..Len(text)}

\* the text without its whitespace
NoSpace(text) == SelectSeq(text, LAMBDA c : c # NL)

\* a JSON value: a literal, the empty object, or an object with one member
RECURSIVE IsValue(_)
IsValue(s) ==
    \/ s = <<Null>>
    \/ s = <<LBrace, RBrace>>
    \/ /\ Len(s) >= 4
       /\ s[1] = LBrace /\ s[2] = Key /\ s[Len(s)] = RBrace
       /\ IsValue(SubSeq(s, 3, Len(s) - 1))

\* json.loads(text) returns (TRUE) or raises (FALSE); whitespace between
\* tokens is skipped
JsonLoads(text) == IsValue(NoSpace(text))

\* str.strip()
RECURSIVE StripText(_)
StripText(text) ==
    IF text = <<>> THEN text
    ELSE IF text[1] = NL THEN StripText(Tail(text))
    ELSE IF text[Len(text)] = NL THEN StripText(SubSeq(text, 1, Len(text) - 1))
    ELSE text

\* text.split("\n")
RECURSIVE SplitLines(_)
SplitLines(text) ==
    LET nls == {i \in 1..Len(text) : text[i] = NL}
    IN IF nls = {} THEN <<text>>
       ELSE LET i == CHOOSE n \in nls : \A m \in nls : n <= m
            IN <<SubSeq(text, 1, i - 1)>> \o SplitLines(SubSeq(text, i + 1, Len(text)))

\* "\n".join(lines)
RECURSIVE JoinLines(_)
JoinLines(lines) ==
    IF lines = <<>> THEN <<>>
    ELSE IF Len(lines) = 1 THEN lines[1]
    ELSE lines[1] \o <<NL>> \o JoinLines(Tail(lines))

\* line.strip().startswith(fence marker)
IsFenceLine(line) == line # <<>> /\ line[1] = Fence

\* Try 2, lines 320-329: every fence line flips in_code; the other lines are
\* collected while in_code is set
JsonLines(text) ==
    LET lines == SplitLines(text)
        inCode(k) == /\ ~IsFenceLine(lines[k])
                     /\ Cardinality({j \in 1..(k - 1) : IsFenceLine(lines[j])}) % 2 = 1
        order == SortedSeq({k \in 1..Len(lines) : inCode(k)})
    IN [j \in 1..Len(order) |-> lines[order[j]]]

\* Try 2: the joined lines when there are any and they parse, else nothing
FromFences(text) ==
    IF Fence \in Tokens(text) /\ JsonLines(text) # <<>> /\ JsonLoads(JoinLines(JsonLines(text)))
    THEN JoinLines(JsonLines(text))
    ELSE <<>>

\* Try 3, lines 343-359: the scan from position i with the brace count and the
\* start index so far (0 for None); the first span that closes at count 0 and
\* parses is returned
RECURSIVE BraceScan(_, _, _, _)
BraceScan(text, i, count, start) ==
    IF i > Len(text) THEN <<>>
    ELSE IF text[i] = LBrace
    THEN BraceScan(text, i + 1, count + 1, IF count = 0 THEN i ELSE start)
    ELSE IF text[i] = RBrace
    THEN IF count - 1 = 0 /\ start # 0 /\ JsonLoads(SubSeq(text, start, i))
         THEN SubSeq(text, start, i)
         ELSE BraceScan(text, i + 1, count - 1, start)
    ELSE BraceScan(text, i + 1, count, start)

\* Try 4, lines 362-370: the greedy pattern has one match, from the first
\* opening brace to the last closing brace after it
FromPattern(text) ==
    LET opens == {i \in 1..Len(text) : text[i] = LBrace}
        closes == {i \in 1..Len(text) : text[i] = RBrace}
        first == CHOOSE i \in opens : \A m \in opens : i <= m
        last == CHOOSE i \in closes : \A m \in closes : i >= m
    IN IF opens = {} \/ closes = {} THEN <<>>
       ELSE IF last > first /\ JsonLoads(SubSeq(text, first, last))
       THEN SubSeq(text, first, last)
       ELSE <<>>

\* an extraction that scans for braces before it tries the whole text
ExtractJsonScanFirst(text) ==
    IF BraceScan(text, 1, 0, 0) # <<>> THEN BraceScan(text, 1, 0, 0)
    ELSE IF JsonLoads(text) THEN text
    ELSE IF FromFences(text) # <<>> THEN FromFences(text)
    ELSE FromPattern(text)

\* an extraction that hands the text on without parsing it
ExtractJsonUnchecked(text) == text

\* _extract_json; the empty sequence is the empty string it returns when no
\* strategy finds JSON
ExtractJson(text) ==
    IF JsonLoads(text) THEN text
    ELSE IF FromFences(text) # <<>> THEN FromFences(text)
    ELSE IF BraceScan(text, 1, 0, 0) # <<>> THEN BraceScan(text, 1, 0, 0)
    ELSE FromPattern(text)

\* create_plan, lines 256-271, on the reply text: strip it, extract, parse.
\* The members of an object of these texts are neither "complexity" nor "steps".
ReplyOfText(text) ==
    LET json_str == ExtractJson(StripText(text))
        json == IF json_str = <<>> THEN "none"
                ELSE IF ~JsonLoads(json_str) THEN "invalid"
                ELSE IF NoSpace(json_str)[1] = LBrace THEN "object" ELSE "value"
    IN Reply("ok", json, {}, Absent, <<>>)

\* length of the reply texts that are taken in full
MaxTextLen == 5
\* length of the JSON texts that are wrapped in a fence
MaxBodyLen == 4

TextsUpTo(n) == UNION {[1..k -> Alphabet] : k \in 0..n}

JsonBodies == {t \in TextsUpTo(MaxBodyLen) : JsonLoads(t)}

\* a fence line with or without a language tag, the body, a closing fence line
Fenced(tag, body) == <<Fence>> \o tag \o <<NL>> \o body \o <<NL, Fence>>

FencedTexts == {Fenced(tag, body) : tag \in {<<>>, <<Word>>}, body \in JsonBodies}

\* the reply texts of the backend
Texts == TextsUpTo(MaxTextLen) \cup FencedTexts

\* ------------------------------------------------------------ state
\* tools:      the registry (self.tools), its keys in insertion order
\* plans:      the plan table (self.plans)
\* fp:         the activation of execute_full_plan: where it is in its loop, the
\*             wave (next_steps) it iterates, its results list
\* ret:        how the last call ended: kind "value" with the value returned,
\*             "error" for the error dict of execute_full_plan, "raise" for an
\*             exception that left the call, "running" while the wave loop runs
\* trans:      the assignments the last call made to step statuses, in order
\* dispatched: the handlers run so far, in order: the step, the wave of the
\*             execute_full_plan call that ran it (0 for a direct execute_step)
\*             and how the handler ended
\* saves:      the calls of _save_plan_to_db so far, in order: the plan, the
\*             step statuses of the record written and whether the database
\*             took it
\* calls:      for each thread of the host, where its execute_step call
\*             stands: not in a call, past the READY check of line 410, or
\*             past the assignment of EXECUTING at line 413
VARIABLES tools, plans, fp, ret, trans, dispatched, saves, calls

vars == <<tools, plans, fp, ret, trans, dispatched, saves, calls>>

\* the threads of the host that call execute_step
Callers == {"t1", "t2"}

\* a thread that is in no execute_step call
NoCall == [pc |-> "idle", plan_id |-> NoneVal, step |-> 0]

NoCalls == [c \in Callers |-> NoCall]

Idle == [pc |-> "idle", plan_id |-> NoneVal, wave |-> <<>>, pos |-> 0, results |-> <<>>,
         wave_no |-> 0, start |-> 0]

\* what a call hands back: text for a string or None, steps for the list of
\* get_next_steps, plan_id for the plan of create_plan, the fields of the dict
\* of execute_full_plan, manifest for the lines of get_tool_manifest, llm_output
\* for the text of the reply of the backend and json_str for what _extract_json
\* returns
NoValue == [text |-> NoneVal, steps |-> <<>>, plan_id |-> NoneVal, results |-> <<>>,
            final_plan |-> <<>>, ran |-> <<>>, manifest |-> <<>>,
            llm_output |-> <<>>, json_str |-> <<>>]

Text(t) == [NoValue EXCEPT !.text = t]

Ret(op, kind, value) == [op |-> op, kind |-> kind, value |-> value]

Log(pid, i, w, o) ==
    [plan |-> pid, step |-> i, wave |-> w, cause |-> o.cause, kind |-> o.kind, value |-> o.value]

\* the steps whose handlers the current execute_full_plan call has run, with
\* their waves, in order
Ran == [k \in 1..(Len(dispatched) - fp.start) |->
           [step |-> dispatched[fp.start + k].step, wave |-> dispatched[fp.start + k].wave]]

\* a save that writes the record twice
SavePlanToDbTwice(log, pid, steps, ok) ==
    log \o << [plan |-> pid, ok |-> ok,
               statuses |-> [i \in 1..Len(steps) |-> steps[i].status]],
             [plan |-> pid, ok |-> ok,
               statuses |-> [i \in 1..Len(steps) |-> steps[i].status]] >>

\* _save_plan_to_db: one INSERT of the plan with json.dumps of its steps as
\* they are at the call
SavePlanToDb(log, pid, steps, ok) ==
    Append(log, [plan |-> pid, ok |-> ok,
                 statuses |-> [i \in 1..Len(steps) |-> steps[i].status]])

\* Planner.__init__: the built-in capabilities, an empty plan table
Init ==
    /\ tools = BuiltinTools
    /\ plans = <<>>
    /\ fp = Idle
    /\ ret = Ret("init", "value", NoValue)
    /\ trans = <<>>
    /\ dispatched = <<>>
    /\ saves = <<>>
    /\ calls = NoCalls

\* register_tool
RegisterTool(cap) ==
    /\ fp.pc = "idle"
    /\ tools' = RegisterInto(tools, cap)
    /\ ret' = Ret("register_tool", "value", NoValue)
    /\ trans' = <<>>
    /\ UNCHANGED <<plans, fp, dispatched, saves, calls>>

\* get_tool_manifest
GetToolManifest ==
    /\ fp.pc = "idle"
    /\ ret' = Ret("get_tool_manifest", "value", [NoValue EXCEPT !.manifest = ToolManifest(tools)])
    /\ trans' = <<>>
    /\ UNCHANGED <<tools, plans, fp, dispatched, saves, calls>>

\* create_plan: ask the backend, extract and parse the reply, validate it,
\* build the steps, run one readiness pass, enter the plan in the table, save
\* it.  The save comes after the table entry: when the database raises (saved
\* is FALSE), the call raises and the plan stays in the table.
CreatePlan(reply, saved) ==
    /\ fp.pc = "idle"
    /\ IF CreateStage(reply) # "built"
       THEN /\ ret' = Ret("create_plan", "raise", Text(CreateStage(reply)))
            /\ trans' = <<>>
            /\ UNCHANGED <<plans, saves>>
       ELSE \E pid \in PlanIds :
            /\ pid \notin DOMAIN plans
            /\ LET pass == UpdateReadyStatus(BuildSteps(reply.steps), ToolNames(tools))
               IN IF pass.raised
                  THEN /\ ret' = Ret("create_plan", "raise", Text("type_error"))
                       /\ trans' = <<>>
                       /\ UNCHANGED <<plans, saves>>
                  ELSE /\ plans' = (pid :> NewPlan(pid, reply.complexity, pass.steps)) @@ plans
                       /\ trans' = pass.trans
                       /\ saves' = SavePlanToDb(saves, pid, pass.steps, saved)
                       /\ ret' = IF saved
                                 THEN Ret("create_plan", "value",
                                          [NoValue EXCEPT !.plan_id = pid])
                                 ELSE Ret("create_plan", "raise",
                                          [NoValue EXCEPT !.text = "db_error",
                                                          !.plan_id = pid])
    /\ UNCHANGED <<tools, fp, dispatched, calls>>

\* _extract_json on the reply the backend has returned
ExtractJsonCall ==
    /\ ret.op = "ollama.chat"
    /\ ret' = Ret("_extract_json", "value",
                  [ret.value EXCEPT !.json_str = ExtractJson(ret.value.llm_output)])
    /\ UNCHANGED <<tools, plans, fp, trans, dispatched, saves, calls>>

\* create_plan on the reply the backend has returned
CreatePlanOnReply ==
    /\ ret.op = "ollama.chat"
    /\ CreatePlan(ReplyOfText(ret.value.llm_output), TRUE)

\* get_next_steps
GetNextSteps(pid) ==
    /\ fp.pc = "idle"
    /\ IF pid \notin DOMAIN plans
       THEN /\ ret' = Ret("get_next_steps", "value", NoValue)
            /\ trans' = <<>>
            /\ UNCHANGED plans
       ELSE LET pass == UpdateReadyStatus(plans[pid].steps, ToolNames(tools))
            IN /\ plans' = [plans EXCEPT ![pid].steps = pass.steps]
               /\ trans' = pass.trans
               /\ ret' = IF pass.raised THEN Ret("get_next_steps", "raise",
                                      [NoValue EXCEPT !.text = "type_error", !.plan_id = pid])
                         ELSE Ret("get_next_steps", "value",
                                  [NoValue EXCEPT !.steps = SortedSeq(ReadyIdx(pass.steps)),
                                                  !.plan_id = pid])
    /\ UNCHANGED <<tools, fp, dispatched, saves, calls>>

\* the outcomes the handler of the step that execute_step(sid) would run can have
\* (one arbitrary outcome when no handler runs)
OutcomesFor(plan, sid) ==
    LET i == FindStep(plan.steps, sid)
    IN IF i = 0 THEN {Outcome("ok", "text", "ok")}
       ELSE IF plan.steps[i].status # READY THEN {Outcome("ok", "text", "ok")}
       ELSE HandlerOutcomes(plan.steps[i].tool)

\* execute_step called by the host
ExecuteStep(pid, sid) ==
    /\ fp.pc = "idle"
    /\ IF pid \notin DOMAIN plans
       THEN /\ ret' = Ret("execute_step", "value", NoValue)
            /\ trans' = <<>>
            /\ UNCHANGED <<plans, dispatched>>
       ELSE \E o \in OutcomesFor(plans[pid], sid) :
            LET r == ExecStep(plans[pid], sid, o, ToolNames(tools))
            IN /\ plans' = [plans EXCEPT ![pid] = r.plan]
               /\ ret' = IF r.raised THEN Ret("execute_step", "raise", Text(o.value))
                         ELSE Ret("execute_step", "value", Text(r.result))
               /\ trans' = r.trans
               /\ dispatched' = IF r.dispatched = 0 THEN dispatched
                                ELSE Append(dispatched, Log(pid, r.dispatched, 0, o))
    /\ UNCHANGED <<tools, fp, saves, calls>>

\* execute_full_plan, lines 552-556: look the plan up, start with no results
FullPlanBegin(pid) ==
    /\ fp.pc = "idle"
    /\ IF pid \notin DOMAIN plans
       THEN /\ ret' = Ret("execute_full_plan", "error",
                           [NoValue EXCEPT !.text = "Plan not found", !.plan_id = pid])
            /\ UNCHANGED fp
       ELSE /\ fp' = [Idle EXCEPT !.pc = "pass", !.plan_id = pid, !.start = Len(dispatched)]
            /\ ret' = Ret("execute_full_plan", "running", NoValue)
    /\ trans' = <<>>
    /\ UNCHANGED <<tools, plans, dispatched, saves, calls>>

\* the loop head: get_next_steps; an empty list ends the loop and the call
\* returns the results with plan.to_readable() (ran is no part of the returned
\* dict: it records which handlers the call ran)
FullPlanPass ==
    /\ fp.pc = "pass"
    /\ LET pid == fp.plan_id
           pass == UpdateReadyStatus(plans[pid].steps, ToolNames(tools))
           wave == SortedSeq(ReadyIdx(pass.steps))
           after == [plans[pid] EXCEPT !.steps = pass.steps]
       IN /\ plans' = [plans EXCEPT ![pid] = after]
          /\ trans' = pass.trans
          /\ IF pass.raised
             THEN /\ fp' = Idle
                  /\ ret' = Ret("execute_full_plan", "raise",
                                 [NoValue EXCEPT !.text = "type_error", !.plan_id = pid])
             ELSE IF wave = <<>>
             THEN /\ fp' = Idle
                  /\ ret' = IF ReadableRaises(after)
                            THEN Ret("execute_full_plan", "raise",
                                 [NoValue EXCEPT !.text = "type_error", !.plan_id = pid])
                            ELSE Ret("execute_full_plan", "value",
                                     [NoValue EXCEPT !.plan_id = pid, !.results = fp.results,
                                                     !.final_plan = ToReadable(after),
                                                     !.ran = Ran])
             ELSE /\ fp' = [fp EXCEPT !.pc = "wave", !.wave = wave, !.pos = 1,
                                      !.wave_no = fp.wave_no + 1]
                  /\ UNCHANGED ret
    /\ UNCHANGED <<tools, dispatched, saves, calls>>

\* one iteration of the for loop: execute_step on the wave's next step, then
\* results.append
FullPlanDispatch ==
    /\ fp.pc = "wave"
    /\ Len(fp.results) < MaxResults
    /\ LET pid == fp.plan_id
           idx == fp.wave[fp.pos]
           sid == plans[pid].steps[idx].id
       IN \E o \in OutcomesFor(plans[pid], sid) :
            LET r == ExecStep(plans[pid], sid, o, ToolNames(tools))
            IN /\ plans' = [plans EXCEPT ![pid] = r.plan]
               /\ trans' = r.trans
               /\ dispatched' = IF r.dispatched = 0 THEN dispatched
                                ELSE Append(dispatched, Log(pid, r.dispatched, fp.wave_no, o))
               /\ IF r.raised
                  THEN /\ fp' = Idle
                       /\ ret' = Ret("execute_full_plan", "raise",
                                      [NoValue EXCEPT !.text = o.value, !.plan_id = pid])
                  ELSE /\ fp' = [fp EXCEPT !.results = Append(@, [step |-> idx, result |-> r.result]),
                                           !.pos = @ + 1,
                                           !.pc = IF fp.pos = Len(fp.wave) THEN "pass" ELSE "wave"]
                       /\ UNCHANGED ret
    /\ UNCHANGED <<tools, saves, calls>>

\* execute_step in thread c, lines 405-411: look the plan and the step up and
\* test that the step is READY; the call returns None when one of them fails
StepCheck(c, pid, sid) ==
    /\ calls[c].pc = "idle"
    /\ LET i == IF pid \in DOMAIN plans THEN FindStep(plans[pid].steps, sid) ELSE 0
       IN IF i = 0 \/ (i # 0 /\ plans[pid].steps[i].status # READY)
          THEN /\ ret' = Ret("execute_step", "value", NoValue)
               /\ UNCHANGED calls
          ELSE /\ calls' = [calls EXCEPT ![c] = [pc |-> "checked", plan_id |-> pid, step |-> i]]
               /\ UNCHANGED ret
    /\ trans' = <<>>
    /\ UNCHANGED <<tools, plans, fp, dispatched, saves>>

\* execute_step in thread c, line 413: step.status = EXECUTING
StepMark(c) ==
    /\ calls[c].pc = "checked"
    /\ LET pid == calls[c].plan_id
           i == calls[c].step
       IN /\ plans' = [plans EXCEPT ![pid].steps[i].status = EXECUTING]
          /\ trans' = <<Trans(i, plans[pid].steps[i].status, EXECUTING)>>
    /\ calls' = [calls EXCEPT ![c].pc = "marked"]
    /\ UNCHANGED <<tools, fp, ret, dispatched, saves>>

\* execute_step in thread c, lines 415-443: the handler and what follows it
StepRun(c) ==
    /\ calls[c].pc = "marked"
    /\ LET pid == calls[c].plan_id
           i == calls[c].step
       IN \E o \in HandlerOutcomes(plans[pid].steps[i].tool) :
            LET r == RunHandler(plans[pid], i, o, ToolNames(tools))
            IN /\ plans' = [plans EXCEPT ![pid] = r.plan]
               /\ ret' = Ret("execute_step", "value", Text(r.result))
               /\ trans' = r.trans
               /\ dispatched' = Append(dispatched, Log(pid, i, 0, o))
    /\ calls' = [calls EXCEPT ![c] = NoCall]
    /\ UNCHANGED <<tools, fp, saves>>

\* the plan table has not reached the number of plans the model follows
HasRoom == PlanIds \ DOMAIN plans # {}

\* create_plan on a reply whose plan is built, with a database that takes it
CreatePlanSaved == HasRoom /\ \E reply \in GoodReplies : CreatePlan(reply, TRUE)

\* create_plan on a reply whose plan is built, with a database that takes the
\* plan or raises
CreatePlanBuilt ==
    HasRoom /\ \E reply \in SmallGoodReplies, saved \in BOOLEAN : CreatePlan(reply, saved)

\* create_plan on a reply that makes it raise before it builds a plan
CreatePlanFails == \E reply \in BadReplies : CreatePlan(reply, TRUE)

\* the operations of the planner on replies whose plan is built, with a
\* database that takes every plan
Next ==
    \/ \E cap \in RegCaps : RegisterTool(cap)
    \/ CreatePlanSaved
    \/ \E pid \in PlanIdArgs : GetNextSteps(pid)
    \/ \E pid \in PlanIdArgs, sid \in StepIdArgs : ExecuteStep(pid, sid)
    \/ \E pid \in PlanIdArgs : FullPlanBegin(pid)
    \/ FullPlanPass
    \/ FullPlanDispatch

Spec == Init /\ [][Next]_vars

\* ------------------------------------------------------------ plan creation
\* create_plan on every kind of reply, with a database that takes the plan or
\* raises, and the lookup of execute_full_plan
NextCreate ==
    \/ \E cap \in RegCaps : RegisterTool(cap)
    \/ CreatePlanBuilt
    \/ CreatePlanFails
    \/ \E pid \in PlanIdArgs : FullPlanBegin(pid)

SpecCreate == Init /\ [][NextCreate]_vars

\* --------------------------------------------------- threads of the host
\* create_plan on a small reply
CreatePlanSmall == HasRoom /\ \E reply \in SmallGoodReplies : CreatePlan(reply, TRUE)

\* two threads of the host call execute_step on the plans of the table; the
\* planner holds no lock, so a thread can be switched between any two lines
NextThreads ==
    \/ CreatePlanSmall
    \/ \E c \in Callers, pid \in PlanIdArgs, sid \in StepIdArgs : StepCheck(c, pid, sid)
    \/ \E c \in Callers : StepMark(c)
    \/ \E c \in Callers : StepRun(c)

SpecThreads == Init /\ [][NextThreads]_vars

\* ------------------------------------------------------------ the registry
\* the capabilities a host registers: new names and names of built-in
\* capabilities, each with two contracts
RegistryNames == {"image_gen", "web_search", "llm_generate", "memory_save_fact"}

RegistryCaps == {Capability(n, d) : n \in RegistryNames, d \in {"v1", "v2"}}

NextRegistry ==
    \/ \E cap \in RegistryCaps : RegisterTool(cap)
    \/ GetToolManifest

SpecRegistry == Init /\ [][NextRegistry]_vars

\* ------------------------------------------------------------ extraction alone
\* a planner whose backend has returned a reply text
InitExtract ==
    /\ tools = BuiltinTools
    /\ plans = <<>>
    /\ fp = Idle
    /\ \E text \in Texts : ret = Ret("ollama.chat", "value", [NoValue EXCEPT !.llm_output = text])
    /\ trans = <<>>
    /\ dispatched = <<>>
    /\ saves = <<>>
    /\ calls = NoCalls

NextExtract == ExtractJsonCall \/ CreatePlanOnReply

SpecExtract == InitExtract /\ [][NextExtract]_vars

\* ------------------------------------------------------------ the pass alone
\* number of steps of the plans the readiness pass is run on in isolation
MaxPassSteps == 2

AllStatuses == {PENDING, READY, EXECUTING, COMPLETED, FAILED, NEEDS_TOOL}

PassRawSteps ==
    {RawStep(Absent, NoneVal, d, r) :
        d \in {<<>>, <<"step_1">>, <<"step_2">>, <<"step_1", Unhashable>>},
        r \in {<<>>, <<ToolReq("image_gen")>>}}

\* any plan of the table, its steps in any status, and any registry
InitPass ==
    /\ tools \in {BuiltinTools, RegisterInto(BuiltinTools, Capability("image_gen", "v1"))}
    /\ \E raw \in SeqsUpTo(PassRawSteps, MaxPassSteps) :
        \E st \in [1..Len(raw) -> AllStatuses] :
            plans = [pid \in PlanIds |->
                        NewPlan(pid, "simple",
                                [n \in 1..Len(raw) |->
                                    [NewStep(raw[n], n) EXCEPT !.status = st[n]]])]
    /\ fp = Idle
    /\ ret = Ret("init", "value", NoValue)
    /\ trans = <<>>
    /\ dispatched = <<>>
    /\ saves = <<>>
    /\ calls = NoCalls

NextPass == \E pid \in PlanIdArgs : GetNextSteps(pid)

SpecPass == InitPass /\ [][NextPass]_vars

\* ------------------------------------------------------------ properties
Terminal == {COMPLETED, FAILED}

StepsOf(pid) == plans[pid].steps

StepIdx(pid) == 1..Len(plans[pid].steps)

\* C1: in every reachable state, a step is READY only if every id in its
\* dependency list is the id of a step whose status is COMPLETED.
C1_ReadyOnlyIfDepsCompleted ==
    \A pid \in DOMAIN plans : \A i \in StepIdx(pid) :
        StepsOf(pid)[i].status = READY =>
            \A k \in 1..Len(StepsOf(pid)[i].depends_on) :
                StepsOf(pid)[i].depends_on[k] \in CompletedIds(StepsOf(pid))

\* C2: every step that is READY at the start of a wave of execute_full_plan is
\* COMPLETED or FAILED at the end of that wave (so every non-empty wave lowers
\* the number of non-terminal steps and the loop ends).
C2_WaveStepsEndTerminal ==
    (fp.pc = "pass" /\ fp.wave_no > 0) =>
        \A k \in 1..Len(fp.wave) : StepsOf(fp.plan_id)[fp.wave[k]].status \in Terminal

\* the tool requirements of a step are all registered and its dependency ids
\* are all completed
Unblocked(pid, i) ==
    /\ Unmet(StepsOf(pid)[i], ToolNames(tools)) = {}
    /\ \A k \in 1..Len(StepsOf(pid)[i].depends_on) :
          StepsOf(pid)[i].depends_on[k] \in CompletedIds(StepsOf(pid))

\* C3: after a readiness pass, a step whose missing capability has been
\* registered and whose dependencies are all COMPLETED is no longer NEEDS_TOOL:
\* the pass has made it READY.
C3_NeedsToolRederived ==
    (ret.op = "get_next_steps" /\ ret.kind = "value") =>
        \A pid \in DOMAIN plans : \A i \in StepIdx(pid) :
            Unblocked(pid, i) => StepsOf(pid)[i].status # NEEDS_TOOL

\* the step names a capability and lists it as a tool requirement
DeclaresOwnTool(step) ==
    /\ step.tool # NoneVal
    /\ \E k \in 1..Len(step.deferred_requirements) :
          step.deferred_requirements[k] = ToolReq(step.tool)

WaveEntries == {k \in 1..Len(dispatched) : dispatched[k].wave > 0}

\* C4 (as stated): a step whose capability reference names a capability that is
\* not registered is NEEDS_TOOL when create_plan returns, and no wave of
\* execute_full_plan dispatches it while the name is unregistered.
C4_UnregisteredToolNeedsTool ==
    /\ (ret.op = "create_plan" /\ ret.kind = "value") =>
          \A i \in StepIdx(ret.value.plan_id) :
              (StepsOf(ret.value.plan_id)[i].tool # NoneVal
                  /\ StepsOf(ret.value.plan_id)[i].tool \notin ToolNames(tools))
              => StepsOf(ret.value.plan_id)[i].status = NEEDS_TOOL
    /\ \A k \in WaveEntries :
          LET step == StepsOf(dispatched[k].plan)[dispatched[k].step]
          IN step.tool = NoneVal \/ step.tool \in ToolNames(tools)

\* C4 (amended): a step whose capability reference names a capability that is
\* not registered and that lists this capability among its deferred
\* requirements as a tool requirement is NEEDS_TOOL when create_plan returns,
\* and no wave of execute_full_plan dispatches it while the name is
\* unregistered (the registry only grows, so a dispatched step of that kind has
\* its capability registered).
C4_DeclaredToolNeedsTool ==
    /\ (ret.op = "create_plan" /\ ret.kind = "value") =>
          \A i \in StepIdx(ret.value.plan_id) :
              (DeclaresOwnTool(StepsOf(ret.value.plan_id)[i])
                  /\ StepsOf(ret.value.plan_id)[i].tool \notin ToolNames(tools))
              => StepsOf(ret.value.plan_id)[i].status = NEEDS_TOOL
    /\ \A k \in WaveEntries :
          LET step == StepsOf(dispatched[k].plan)[dispatched[k].step]
          IN DeclaresOwnTool(step) => step.tool \in ToolNames(tools)

\* a wave has run a handler while a step that declares its unregistered
\* capability is NEEDS_TOOL
C4_Witness ==
    /\ WaveEntries # {}
    /\ \E pid \in DOMAIN plans : \E i \in StepIdx(pid) :
          /\ DeclaresOwnTool(StepsOf(pid)[i])
          /\ StepsOf(pid)[i].tool \notin ToolNames(tools)
          /\ StepsOf(pid)[i].status = NEEDS_TOOL

\* C5: COMPLETED and FAILED are terminal: no call assigns a new status to a step
\* whose status is COMPLETED or FAILED.
C5_TerminalStatusesStay ==
    \A k \in 1..Len(trans) : trans[k].from \notin Terminal

\* the step this transition runs a handler on, and the handler raises
HandlerFails ==
    /\ Len(dispatched') = Len(dispatched) + 1
    /\ dispatched'[Len(dispatched')].kind = "raise"

CyclePair(pid, a, b) ==
    /\ a # b
    /\ FindStep(StepsOf(pid), StepsOf(pid)[a].id) = a
    /\ FindStep(StepsOf(pid), StepsOf(pid)[b].id) = b
    /\ \E k \in 1..Len(StepsOf(pid)[a].depends_on) : StepsOf(pid)[a].depends_on[k] = StepsOf(pid)[b].id
    /\ \E k \in 1..Len(StepsOf(pid)[b].depends_on) : StepsOf(pid)[b].depends_on[k] = StepsOf(pid)[a].id

InCycle(pid, a) == \E b \in StepIdx(pid) : CyclePair(pid, a, b)

NonTerminalIcons == {StatusIcon(PENDING), StatusIcon(NEEDS_TOOL)}

\* no handler has run on the step and its status is PENDING or NEEDS_TOOL
C7_NeverRun ==
    \A pid \in DOMAIN plans : \A a \in StepIdx(pid) :
        InCycle(pid, a) =>
            /\ StepsOf(pid)[a].status \in {PENDING, NEEDS_TOOL}
            /\ \A k \in 1..Len(dispatched) : ~(dispatched[k].plan = pid /\ dispatched[k].step = a)

\* the result execute_full_plan returns shows both steps as not finished
C7_Reported ==
    IF ret.op = "execute_full_plan" /\ ret.kind = "value"
    THEN \A a \in StepIdx(ret.value.plan_id) :
            InCycle(ret.value.plan_id, a) => ret.value.final_plan[a].icon \in NonTerminalIcons
    ELSE TRUE

\* the plan has such a pair
CyclePlan(pid) == \E a \in StepIdx(pid) : InCycle(pid, a)

\* execute_full_plan on such a plan runs at most one wave per step outside the
\* pair, is never stuck inside its loop, and does not end by raising
C7_Terminates ==
    /\ (fp.pc # "idle" /\ CyclePlan(fp.plan_id)) =>
          /\ fp.wave_no <= Len(StepsOf(fp.plan_id)) - 2
          /\ Len(fp.results) <= Len(StepsOf(fp.plan_id)) - 2
          /\ ENABLED (FullPlanPass \/ FullPlanDispatch)
    /\ (ret.op = "execute_full_plan" /\ ret.kind = "raise") => ~CyclePlan(ret.value.plan_id)

\* C7: in a plan in which step A depends on B and B depends on A, neither step
\* is ever dispatched or COMPLETED; execute_full_plan on such a plan ends after
\* a bounded number of waves by returning its result, and the result reports
\* both steps with a non-terminal status.
C7_CycleNeverCompletes == C7_NeverRun /\ C7_Reported /\ C7_Terminates

\* C8: when a readiness pass of execute_full_plan finds no READY step while
\* non-terminal steps remain, the call returns a result (it does not raise) and
\* the result shows every step with its current status.
C8_DeadlockReturnsResult ==
    (ret.op = "execute_full_plan" /\ ret.kind \in {"value", "raise"}) =>
        ((\E i \in StepIdx(ret.value.plan_id) :
              StepsOf(ret.value.plan_id)[i].status \notin Terminal)
         => /\ ret.kind = "value"
            /\ \A i \in StepIdx(ret.value.plan_id) :
                  ret.value.final_plan[i].icon = StatusIcon(StepsOf(ret.value.plan_id)[i].status))

\* C9: the readiness pass is idempotent: in the state a pass leaves, a second
\* pass assigns no status, ends the same way (returning or raising) and finds
\* the same READY steps.
C9_PassIdempotent ==
    (ret.op = "get_next_steps" /\ ret.value.plan_id \in DOMAIN plans) =>
        LET again == UpdateReadyStatus(StepsOf(ret.value.plan_id), ToolNames(tools))
        IN /\ again.steps = StepsOf(ret.value.plan_id)
           /\ again.trans = <<>>
           /\ again.raised = (ret.kind = "raise")
           /\ ret.kind = "value" => SortedSeq(ReadyIdx(again.steps)) = ret.value.steps

\* a pass has run that changed the status of a step
C9_Witness ==
    /\ ret.op = "get_next_steps"
    /\ ret.value.plan_id \in DOMAIN plans
    /\ trans # <<>>

\* the plan of the scenario: step_1 without dependencies, step_2 depending on it
ScenarioPlan(pid) ==
    /\ Len(StepsOf(pid)) = 2
    /\ StepsOf(pid)[1].id = "step_1" /\ StepsOf(pid)[1].depends_on = <<>>
    /\ StepsOf(pid)[2].id = "step_2" /\ StepsOf(pid)[2].depends_on = <<"step_1">>

\* C10: in execute_full_plan a step that depends on another step is dispatched
\* in a strictly later wave than that step; the returned results hold one entry
\* per dispatched step, in dispatch order (wave by wave, plan order inside a
\* wave); for step_1 without dependencies and step_2 depending on step_1 the
\* waves are [step_1], [step_2] and the results [step_1, step_2].
C10_WavesFollowDependencies ==
    /\ fp.pc # "idle" =>
          \A k, m \in 1..Len(Ran) :
              (\E d \in 1..Len(StepsOf(fp.plan_id)[Ran[k].step].depends_on) :
                  StepsOf(fp.plan_id)[Ran[k].step].depends_on[d]
                      = StepsOf(fp.plan_id)[Ran[m].step].id)
              => Ran[k].wave > Ran[m].wave
    /\ (ret.op = "execute_full_plan" /\ ret.kind = "value") =>
          /\ Len(ret.value.results) = Len(ret.value.ran)
          /\ \A k \in 1..Len(ret.value.ran) : ret.value.results[k].step = ret.value.ran[k].step
          /\ \A k, m \in 1..Len(ret.value.ran) :
                k < m => \/ ret.value.ran[k].wave < ret.value.ran[m].wave
                         \/ /\ ret.value.ran[k].wave = ret.value.ran[m].wave
                            /\ ret.value.ran[k].step < ret.value.ran[m].step
          /\ (ScenarioPlan(ret.value.plan_id) /\ Len(ret.value.ran) = 2) =>
                ret.value.ran = <<[step |-> 1, wave |-> 1], [step |-> 2, wave |-> 2]>>

\* the replies of the claim: the backend call fails, nothing can be extracted,
\* complexity or steps is missing, the complexity value is invalid
EarlyFailures == {"backend_error", "no_json", "missing_fields", "bad_complexity"}

FailingReplies ==
    {Reply("raise", "none", {}, Absent, <<>>),
     Reply("ok", "none", {}, Absent, <<>>),
     Reply("ok", "object", {"steps"}, Absent, OneRawStep),
     Reply("ok", "object", {"complexity"}, "simple", <<>>),
     Reply("ok", "object", BothKeys, "bogus", OneRawStep)}

\* C11: a create_plan call on a reply for which the backend call fails, nothing
\* can be extracted, complexity or steps is missing or the complexity value is
\* invalid ends by raising, leaves the plan table unchanged and does not call
\* _save_plan_to_db.
C11_FailedCreateChangesNothing ==
    [][\A reply \in FailingReplies : \A saved \in BOOLEAN :
          CreatePlan(reply, saved) =>
              /\ ret'.kind = "raise"
              /\ ret'.value.text \in EarlyFailures
              /\ plans' = plans
              /\ saves' = saves
    ]_vars

\* create_plan has failed on an invalid complexity value while the table holds
\* a plan that was saved
C11_Witness ==
    /\ ret.op = "create_plan" /\ ret.kind = "raise" /\ ret.value.text = "bad_complexity"
    /\ plans # <<>>
    /\ saves # <<>>

\* C12: create_plan returns a plan only after the save succeeded and the plan
\* is then in the table (so execute_full_plan on its id does not answer "Plan
\* not found"); when the save fails the table has no entry for the new plan.
C12_CreateAllOrNothing ==
    /\ (ret.op = "create_plan" /\ ret.kind = "value") =>
          /\ ret.value.plan_id \in DOMAIN plans
          /\ saves # <<>>
          /\ saves[Len(saves)].plan = ret.value.plan_id
          /\ saves[Len(saves)].ok
    /\ (ret.op = "execute_full_plan" /\ ret.kind = "error") =>
          \A k \in 1..Len(saves) : saves[k].ok => saves[k].plan # ret.value.plan_id
    /\ (ret.op = "create_plan" /\ ret.kind = "raise" /\ ret.value.text = "db_error") =>
          ret.value.plan_id \notin DOMAIN plans

\* C13: create_plan registers and persists no plan whose step list is empty (a
\* reply with an empty step list makes it fail).
C13_EmptyStepListRejected ==
    /\ \A pid \in DOMAIN plans : plans[pid].steps # <<>>
    /\ \A k \in 1..Len(saves) : plans[saves[k].plan].steps # <<>>
    /\ (ret.op = "create_plan" /\ ret.kind = "value") => plans[ret.value.plan_id].steps # <<>>

\* the step execute_step(sid) looks at is not READY
NotReadyCall(pid, sid) ==
    /\ pid \in DOMAIN plans
    /\ FindStep(StepsOf(pid), sid) # 0
    /\ StepsOf(pid)[FindStep(StepsOf(pid), sid)].status # READY

\* C14: there is no retry: no step's handler is dispatched twice, and
\* execute_step on a step whose status is not READY (called by the host or by a
\* wave of execute_full_plan) runs no handler, returns None and leaves the plan
\* as it is.
C14_NoRetry ==
    [][/\ \A k, m \in 1..Len(dispatched') :
              (dispatched'[k].plan = dispatched'[m].plan
                  /\ dispatched'[k].step = dispatched'[m].step) => k = m
       /\ \A pid \in PlanIdArgs, sid \in StepIdArgs :
              (NotReadyCall(pid, sid) /\ ExecuteStep(pid, sid)) =>
                  /\ plans' = plans
                  /\ dispatched' = dispatched
                  /\ ret' = Ret("execute_step", "value", NoValue)
       /\ (FullPlanDispatch
              /\ NotReadyCall(fp.plan_id, StepsOf(fp.plan_id)[fp.wave[fp.pos]].id)) =>
                  /\ plans' = plans
                  /\ dispatched' = dispatched
    ]_vars

\* execute_step has returned None without assigning a status, on a plan with a
\* FAILED and a COMPLETED step whose handlers have run
C14_Witness ==
    /\ ret = Ret("execute_step", "value", NoValue)
    /\ trans = <<>>
    /\ Len(dispatched) >= 2
    /\ \E pid \in DOMAIN plans :
          /\ \E i \in StepIdx(pid) : StepsOf(pid)[i].status = FAILED
          /\ \E i \in StepIdx(pid) : StepsOf(pid)[i].status = COMPLETED

\* C15: in every reachable state a step's output is set only if the step is
\* COMPLETED and its error text is set exactly if the step is FAILED (so no
\* step carries both an output and an error).
C15_OutputAndErrorMatchStatus ==
    \A pid \in DOMAIN plans : \A i \in StepIdx(pid) :
        /\ StepsOf(pid)[i].output_data # NoneVal => StepsOf(pid)[i].status = COMPLETED
        /\ StepsOf(pid)[i].error # NoneVal <=> StepsOf(pid)[i].status = FAILED

\* C16: in every state a readiness pass can run in, the plan context maps the
\* id of every COMPLETED step to the output recorded on the step, and holds an
\* output entry for no step that is not COMPLETED.
C16_ContextHoldsCompletedOutputs ==
    \A pid \in DOMAIN plans : \A i \in StepIdx(pid) :
        /\ StepsOf(pid)[i].status = COMPLETED =>
              /\ StepsOf(pid)[i].id \in DOMAIN plans[pid].context
              /\ plans[pid].context[StepsOf(pid)[i].id] = StepsOf(pid)[i].output_data
        /\ StepsOf(pid)[i].id \in DOMAIN plans[pid].context =>
              StepsOf(pid)[i].status = COMPLETED

\* the step's own capability is not None, is not registered and is listed
\* among its deferred requirements
OwnToolMissing(step) ==
    /\ DeclaresOwnTool(step)
    /\ step.tool \notin ToolNames(tools)

\* C17: a readiness pass moves a PENDING step to NEEDS_TOOL exactly when the
\* step's own capability reference is non-null, not registered and listed among
\* its deferred requirements: every step that a pass has set to NEEDS_TOOL is
\* such a step (a step with a null or a registered capability is never set to
\* NEEDS_TOOL), and a pass leaves no such step PENDING.
C17_NeedsToolIffOwnToolMissing ==
    /\ \A k \in 1..Len(trans) :
          trans[k].to = NEEDS_TOOL =>
              \E pid \in DOMAIN plans :
                  /\ trans[k].step \in StepIdx(pid)
                  /\ OwnToolMissing(StepsOf(pid)[trans[k].step])
    /\ (ret.op \in {"get_next_steps", "create_plan"} /\ ret.kind = "value") =>
          \A pid \in DOMAIN plans : \A i \in StepIdx(pid) :
              OwnToolMissing(StepsOf(pid)[i]) => StepsOf(pid)[i].status # PENDING

\* step i lists the id of step j among its dependencies
DirectDep(steps, i, j) ==
    \E k \in 1..Len(steps[i].depends_on) : steps[i].depends_on[k] = steps[j].id

\* the steps reached from the steps of S along at most n dependency entries
RECURSIVE Upstream(_, _, _)
Upstream(steps, S, n) ==
    IF n = 0 THEN S
    ELSE Upstream(steps,
                  S \cup {j \in 1..Len(steps) : \E i \in S : DirectDep(steps, i, j)},
                  n - 1)

\* step i depends, directly or transitively, on a step that is FAILED
DependsOnFailed(steps, i) ==
    \E j \in Upstream(steps, {i}, Len(steps)) \ {i} : steps[j].status = FAILED

\* the entries of the handlers this execute_full_plan call has run
CallEntries == {k \in 1..Len(dispatched) : k > fp.start}

\* C18: after a step has failed, a step that does not depend on it and whose
\* dependencies are COMPLETED (it is part of a wave of execute_full_plan) is
\* still dispatched in that wave, and is COMPLETED at the end of the wave if its
\* handler succeeded.
C18_IndependentStepsStillRun ==
    (fp.pc = "pass" /\ fp.wave_no > 0) =>
        \A w \in 1..Len(fp.wave) :
            LET i == fp.wave[w]
                mine == {k \in CallEntries : dispatched[k].step = i}
                failedBefore ==
                    \E m \in 1..Len(dispatched) :
                        /\ dispatched[m].plan = fp.plan_id
                        /\ dispatched[m].kind = "raise"
                        /\ dispatched[m].step # i
                        /\ \A k \in mine : m < k
            IN (failedBefore /\ ~DependsOnFailed(StepsOf(fp.plan_id), i)) =>
                  /\ mine # {}
                  /\ \A k \in mine :
                        dispatched[k].kind = "ok" => StepsOf(fp.plan_id)[i].status = COMPLETED

\* C19: when the memory collaborator's save_topic_fact raises during a
\* memory_save_fact step, the step ends FAILED with the error text recorded.
C19_SaveFactErrorFailsStep ==
    \A k \in 1..Len(dispatched) :
        dispatched[k].cause = "save_fact_error" =>
            /\ StepsOf(dispatched[k].plan)[dispatched[k].step].status = FAILED
            /\ StepsOf(dispatched[k].plan)[dispatched[k].step].error # NoneVal

\* the capability name has no handler branch in execute_step
NoHandler(tool) == tool \notin ({NoneVal} \cup ToolNames(BuiltinTools))

\* C20: a step whose capability name is none of the built-in handlers and whose
\* handler has been dispatched is COMPLETED with the placeholder as output and
\* no error, never FAILED, and after the call every PENDING step whose
\* dependencies are then COMPLETED and whose tool requirements are registered
\* has been made READY.
C20_UnknownToolGivesPlaceholder ==
    \A k \in 1..Len(dispatched) :
        LET step == StepsOf(dispatched[k].plan)[dispatched[k].step]
        IN NoHandler(step.tool) =>
              /\ dispatched[k].value = "not_implemented"
              /\ step.status = COMPLETED
              /\ step.output_data = "not_implemented"
              /\ step.error = NoneVal
              /\ (k = Len(dispatched) /\ ret.op = "execute_step") =>
                    \A j \in StepIdx(dispatched[k].plan) :
                        Unblocked(dispatched[k].plan, j) =>
                            StepsOf(dispatched[k].plan)[j].status # PENDING

\* the status changes of the step state machine
AllowedTransitions ==
    {<<PENDING, READY>>, <<PENDING, NEEDS_TOOL>>, <<NEEDS_TOOL, PENDING>>,
     <<NEEDS_TOOL, READY>>, <<READY, EXECUTING>>, <<EXECUTING, COMPLETED>>,
     <<EXECUTING, FAILED>>}

\* C21: every status change a call makes to a step is one of PENDING->READY,
\* PENDING->NEEDS_TOOL, NEEDS_TOOL->PENDING, NEEDS_TOOL->READY,
\* READY->EXECUTING, EXECUTING->COMPLETED and EXECUTING->FAILED.
C21_OnlyStateMachineTransitions ==
    \A k \in 1..Len(trans) : <<trans[k].from, trans[k].to>> \in AllowedTransitions

\* C22: in every plan of the table the step ids are pairwise distinct, also
\* when some raw steps carry an explicit id and others get the id synthesized
\* from their position.
C22_StepIdsDistinct ==
    \A pid \in DOMAIN plans : \A i, j \in StepIdx(pid) :
        StepsOf(pid)[i].id = StepsOf(pid)[j].id => i = j

\* C23: in every plan of the table, every entry of every step's dependency
\* list is the id of a step of the same plan.
C23_DependenciesWithinPlan ==
    \A pid \in DOMAIN plans : \A i \in StepIdx(pid) :
        \A k \in 1..Len(StepsOf(pid)[i].depends_on) :
            \E j \in StepIdx(pid) : StepsOf(pid)[j].id = StepsOf(pid)[i].depends_on[k]

\* C24: readiness is recomputed only between waves: while a wave of
\* execute_full_plan has steps left to dispatch, no step changes from PENDING to
\* READY or NEEDS_TOOL.
C24_NoReadinessChangeWithinWave ==
    [][(FullPlanDispatch /\ fp.pos < Len(fp.wave)) =>
          \A i \in StepIdx(fp.plan_id) :
              StepsOf(fp.plan_id)[i].status = PENDING =>
                  plans'[fp.plan_id].steps[i].status \notin {READY, NEEDS_TOOL}
    ]_vars

\* C25: every step that enters EXECUTING is COMPLETED or FAILED when the
\* execute_step call that dispatched it returns: the assignment of EXECUTING
\* is followed, in the same call, by the assignment of COMPLETED or FAILED to
\* the same step, the step is COMPLETED or FAILED after the call, and no step
\* is EXECUTING in any state between two operations.
C25_ExecutingAlwaysResolves ==
    /\ \A pid \in DOMAIN plans : \A i \in StepIdx(pid) : StepsOf(pid)[i].status # EXECUTING
    /\ \A k \in 1..Len(trans) :
          trans[k].to = EXECUTING =>
              /\ k < Len(trans)
              /\ trans[k + 1] \in {Trans(trans[k].step, EXECUTING, st) : st \in Terminal}
              /\ Len(dispatched) > 0
              /\ dispatched[Len(dispatched)].step = trans[k].step
              /\ StepsOf(dispatched[Len(dispatched)].plan)[trans[k].step].status \in Terminal

\* an execute_step call of the host has taken a step through EXECUTING to
\* FAILED, in a plan that has another step COMPLETED
C25_Witness ==
    /\ ret.op = "execute_step"
    /\ Len(trans) = 2
    /\ trans[1].to = EXECUTING
    /\ trans[2].to = FAILED
    /\ \E pid \in DOMAIN plans : \E i \in StepIdx(pid) : StepsOf(pid)[i].status = COMPLETED

\* what create_plan fixes of a step and of a plan
StepFrame(step) ==
    [id |-> step.id, description |-> step.description, tool |-> step.tool,
     tool_input |-> step.tool_input, expected_output |-> step.expected_output,
     depends_on |-> step.depends_on,
     deferred_requirements |-> step.deferred_requirements]

PlanFrame(plan) ==
    [id |-> plan.id, goal |-> plan.goal, complexity |-> plan.complexity,
     steps |-> [i \in 1..Len(plan.steps) |-> StepFrame(plan.steps[i])]]

NameSeq(t) == [i \in 1..Len(t) |-> t[i].name]

\* the blocks of a manifest that are neither the header nor an empty line
PromptBlocks(m) == SelectSeq(m, LAMBDA b : b # ManifestHeader /\ b # <<>>)

\* C27: register_tool inserts the capability or replaces the one of the same
\* name: afterwards the registry holds the capability, at most one capability
\* per name, every other capability as before, and the names in the order of
\* their first insertion.  get_tool_manifest lists every registered capability
\* exactly once, in that order, and a second call with no register_tool in
\* between returns the same text.
C27_RegisterAndManifest ==
    [][/\ \A cap \in RegistryCaps :
            RegisterTool(cap) =>
                /\ \E i \in 1..Len(tools') : tools'[i] = cap
                /\ \A i, j \in 1..Len(tools') : tools'[i].name = tools'[j].name => i = j
                /\ \A i \in 1..Len(tools) : tools[i].name # cap.name => tools'[i] = tools[i]
                /\ NameSeq(tools') = IF cap.name \in ToolNames(tools) THEN NameSeq(tools)
                                     ELSE Append(NameSeq(tools), cap.name)
       /\ GetToolManifest =>
            /\ PromptBlocks(ret'.value.manifest) = [i \in 1..Len(tools) |-> ToPrompt(tools[i])]
            /\ \A i \in 1..Len(tools) :
                  Cardinality({k \in 1..Len(ret'.value.manifest) :
                                  ret'.value.manifest[k] = ToPrompt(tools[i])}) = 1
            /\ ret.op = "get_tool_manifest" => ret'.value.manifest = ret.value.manifest
    ]_vars

\* the manifest has been taken of a registry with two added capabilities and a
\* built-in capability whose contract was replaced
C27_Witness ==
    /\ ret.op = "get_tool_manifest"
    /\ Len(tools) = Len(BuiltinTools) + 2
    /\ tools[1] = Capability("llm_generate", "v2")
    /\ tools[5].name = "web_search"
    /\ Len(ret.value.manifest) = 2 * Len(tools) + 1

\* a register_tool step leaves every plan (statuses, outputs, errors, context)
\* as it is
RegisterChangesNoPlan == \A cap \in RegCaps : RegisterTool(cap) => plans' = plans

\* a readiness pass (get_next_steps) leaves no step NEEDS_TOOL whose tool
\* requirements are all registered
PassClearsNeedsTool ==
    \A pid \in DOMAIN plans :
        GetNextSteps(pid) =>
            \A i \in StepIdx(pid) :
                (StepsOf(pid)[i].status = NEEDS_TOOL
                    /\ Unmet(StepsOf(pid)[i], ToolNames(tools)) = {})
                => plans'[pid].steps[i].status # NEEDS_TOOL

\* C28: register_tool itself changes no step status, output, error or context
\* of any plan; its effect on the NEEDS_TOOL steps that waited for the
\* capability appears at the next readiness pass, which takes them out of
\* NEEDS_TOOL.
C28_RegisterActsAtNextPass == [][RegisterChangesNoPlan /\ PassClearsNeedsTool]_vars

\* the text is one fence: an opening fence line with at most a language tag,
\* lines without fence markers, a closing fence line
WrappedInOneFence(text) ==
    LET lines == SplitLines(text)
    IN /\ Len(lines) >= 3
       /\ lines[1][1] = Fence
       /\ Tokens(Tail(lines[1])) \subseteq {Word}
       /\ lines[Len(lines)] = <<Fence>>
       /\ \A k \in 2..(Len(lines) - 1) : Fence \notin Tokens(lines[k])

\* the text between the two fence lines
Interior(text) == JoinLines(SubSeq(SplitLines(text), 2, Len(SplitLines(text)) - 1))

\* C29: _extract_json returns its input unchanged when the whole text is
\* valid JSON, and returns exactly the text between the fence lines when the
\* text is valid JSON wrapped in one fence.
C29_ExtractionRoundTrip ==
    ret.op = "_extract_json" =>
        /\ JsonLoads(ret.value.llm_output) => ret.value.json_str = ret.value.llm_output
        /\ (SplitLines(ret.value.llm_output)[1] # <<>>
              /\ WrappedInOneFence(ret.value.llm_output)
              /\ JsonLoads(Interior(ret.value.llm_output)))
           => ret.value.json_str = Interior(ret.value.llm_output)

\* _extract_json has returned the object of a fence with a language tag
C29_Witness ==
    /\ ret.op = "_extract_json"
    /\ ret.value.llm_output = Fenced(<<Word>>, <<LBrace, Key, Null, RBrace>>)
    /\ ret.value.json_str = <<LBrace, Key, Null, RBrace>>

\* create_plan runs on a reply of the backend that holds no opening brace
CreatePlanOnBracelessReply ==
    /\ ret.op = "ollama.chat"
    /\ LBrace \notin Tokens(ret.value.llm_output)
    /\ CreatePlanOnReply

\* the stripped reply is valid JSON as a whole, or the lines inside its fences
\* are
HoldsJson(text) ==
    \/ JsonLoads(StripText(text))
    \/ /\ JsonLines(StripText(text)) # <<>>
       /\ JsonLoads(JoinLines(JsonLines(StripText(text))))

\* C30 (as stated): for every reply of the backend that holds no opening
\* brace, _extract_json returns the empty string and create_plan raises the
\* extraction error ("LLM did not return valid JSON"), leaving the plan table
\* unchanged.
C30_BracelessReplyNotExtracted ==
    [][CreatePlanOnBracelessReply =>
          /\ ExtractJson(StripText(ret.value.llm_output)) = <<>>
          /\ ret' = Ret("create_plan", "raise", Text("no_json"))
          /\ plans' = plans
          /\ saves' = saves
    ]_vars

\* C30 (amended): for every reply of the backend that holds no opening brace,
\* create_plan raises and leaves the plan table unchanged and nothing saved;
\* _extract_json returns the empty string, and the error is the extraction
\* error, exactly when neither the whole reply nor the text inside its fences
\* is valid JSON (a reply such as null, or a fence around it, is extracted and
\* fails later).
C30_BracelessReplyFailsCreate ==
    [][CreatePlanOnBracelessReply =>
          /\ ret'.op = "create_plan"
          /\ ret'.kind = "raise"
          /\ plans' = plans
          /\ saves' = saves
          /\ ExtractJson(StripText(ret.value.llm_output)) = <<>> <=> ~HoldsJson(ret.value.llm_output)
          /\ ret'.value.text = "no_json" <=> ~HoldsJson(ret.value.llm_output)
    ]_vars

\* create_plan has raised the extraction error on a reply and the plan table
\* is empty
C30_Witness ==
    /\ ret = Ret("create_plan", "raise", Text("no_json"))
    /\ plans = <<>>
    /\ saves = <<>>

\* create_plan has just returned the id of the plan it built
Created == ret.op = "create_plan" /\ ret.kind = "value"

\* C31: when create_plan returns, every step of the new plan is PENDING, READY
\* or NEEDS_TOOL, has no output and no error, and is READY exactly when its
\* dependency list is empty and it has no tool requirement that is not
\* registered.
C31_StepsOfNewPlan ==
    Created =>
        \A i \in StepIdx(ret.value.plan_id) :
            LET step == StepsOf(ret.value.plan_id)[i]
            IN /\ step.status \in {PENDING, READY, NEEDS_TOOL}
               /\ step.output_data = NoneVal
               /\ step.error = NoneVal
               /\ step.status = READY <=>
                     /\ step.depends_on = <<>>
                     /\ Unmet(step, ToolNames(tools)) = {}

\* create_plan has returned a plan with a READY step and a NEEDS_TOOL step
C31_Witness ==
    /\ Created
    /\ \E i, j \in StepIdx(ret.value.plan_id) :
          /\ StepsOf(ret.value.plan_id)[i].status = READY
          /\ StepsOf(ret.value.plan_id)[j].status = NEEDS_TOOL
          /\ StepsOf(ret.value.plan_id)[j].depends_on = <<>>

\* the last call ran a readiness pass, to its end or to the entry that raised
PassRan ==
    \/ Created
    \/ ret.op = "get_next_steps" /\ ret.value.plan_id # NoneVal
    \/ ret.op = "execute_step" /\ \E k \in 1..Len(trans) : trans[k].to = COMPLETED
    \/ ret.op = "execute_full_plan" /\ ret.kind \in {"value", "raise"}

\* C32: immediately after a readiness pass, no step is left PENDING whose
\* dependency ids are all COMPLETED and whose tool requirements are all
\* registered: every such step is READY.
C32_NoEligibleStepLeftPending ==
    PassRan =>
        \A pid \in DOMAIN plans : \A i \in StepIdx(pid) :
            (StepsOf(pid)[i].status = PENDING) => ~Unblocked(pid, i)

\* a pass has moved a step with a completed dependency from PENDING to READY
C32_Witness ==
    /\ PassRan
    /\ \E k \in 1..Len(trans) : trans[k].from = PENDING /\ trans[k].to = READY
    /\ \E pid \in DOMAIN plans : \E i \in StepIdx(pid) :
          /\ StepsOf(pid)[i].status = READY
          /\ StepsOf(pid)[i].depends_on # <<>>
          /\ Unblocked(pid, i)

\* the dependency entries of the steps lead back to no step they start from
Acyclic(steps) ==
    \A i \in 1..Len(steps) :
        i \notin Upstream(steps, {j \in 1..Len(steps) : DirectDep(steps, i, j)}, Len(steps))

\* the step ids are distinct, every dependency entry is the id of a step, the
\* dependency graph is acyclic and no step has a tool requirement that is not
\* registered
WellFormed(steps, names) ==
    /\ \A i, j \in 1..Len(steps) : steps[i].id = steps[j].id => i = j
    /\ \A i \in 1..Len(steps) : \A k \in 1..Len(steps[i].depends_on) :
          \E j \in 1..Len(steps) : steps[i].depends_on[k] = steps[j].id
    /\ Acyclic(steps)
    /\ \A i \in 1..Len(steps) : Unmet(steps[i], names) = {}

\* every handler run so far returned a result and none reported a failure
AllHandlersSucceeded ==
    \A k \in 1..Len(dispatched) : dispatched[k].kind = "ok" /\ dispatched[k].cause = "ok"

\* the positions of step i in a list of result entries
EntriesOf(results, i) == {k \in 1..Len(results) : results[k].step = i}

\* C33: execute_full_plan on a plan whose step ids are distinct, whose
\* dependency ids all name steps of the plan, whose dependency graph is
\* acyclic and none of whose steps has an unmet tool requirement, with every
\* handler succeeding and no step run before the call, ends by returning, with
\* every step COMPLETED and exactly one result entry per step, placed after
\* the entries of the steps it depends on.
C33_WellFormedPlanRunsToCompletion ==
    LET pid == ret.value.plan_id
    IN (/\ ret.op = "execute_full_plan"
        /\ ret.kind \in {"value", "raise"}
        /\ WellFormed(StepsOf(pid), ToolNames(tools))
        /\ AllHandlersSucceeded
        /\ ret.kind = "value" => Len(ret.value.ran) = Len(dispatched))
       => /\ ret.kind = "value"
          /\ \A i \in StepIdx(pid) : StepsOf(pid)[i].status = COMPLETED
          /\ Len(ret.value.results) = Len(StepsOf(pid))
          /\ \A i \in StepIdx(pid) : Cardinality(EntriesOf(ret.value.results, i)) = 1
          /\ \A i, j \in StepIdx(pid) :
                DirectDep(StepsOf(pid), i, j) =>
                    \A a \in EntriesOf(ret.value.results, i) :
                    \A b \in EntriesOf(ret.value.results, j) : b < a

\* C34: once execute_step has marked a step COMPLETED and recorded its output,
\* nothing later in the call, the readiness pass it runs included, makes the
\* step FAILED or sets its error text: a step whose handler returned is
\* COMPLETED with its output and no error.
C34_CompletionNotUndone ==
    \A k \in 1..Len(dispatched) :
        dispatched[k].kind = "ok" =>
            LET step == StepsOf(dispatched[k].plan)[dispatched[k].step]
            IN /\ step.status = COMPLETED
               /\ step.output_data = dispatched[k].value
               /\ step.error = NoneVal

\* C36: a step that depends, directly or transitively, on a FAILED step is
\* never dispatched and stays out of the runnable statuses (PENDING, or
\* NEEDS_TOOL when the creation pass set that) in every later state, whatever
\* calls follow.
C36_DependentsOfFailedNeverRun ==
    \A pid \in DOMAIN plans : \A i \in StepIdx(pid) :
        DependsOnFailed(StepsOf(pid), i) =>
            /\ StepsOf(pid)[i].status \in {PENDING, NEEDS_TOOL}
            /\ \A k \in 1..Len(dispatched) :
                  ~(dispatched[k].plan = pid /\ dispatched[k].step = i)

\* a step of create_plan that builds a plan and enters it in the table
CreateBuilds == ret'.op = "create_plan" /\ plans' # plans

\* a step of create_plan that builds a plan calls _save_plan_to_db once, with
\* the plan as the readiness pass has left it; no other step calls it
SavedOnlyAtCreation ==
    IF CreateBuilds
    THEN /\ Len(saves') = Len(saves) + 1
         /\ SubSeq(saves', 1, Len(saves)) = saves
         /\ saves'[Len(saves')].plan = ret'.value.plan_id
         /\ saves'[Len(saves')].statuses =
               [i \in 1..Len(plans'[ret'.value.plan_id].steps) |->
                   plans'[ret'.value.plan_id].steps[i].status]
    ELSE saves' = saves

\* C37: _save_plan_to_db is called exactly once per created plan, by
\* create_plan after its readiness pass; get_next_steps, execute_step,
\* execute_full_plan and register_tool never call it, so the record written
\* keeps the statuses the plan had at creation.
C37_SavedOnceAtCreation == [][SavedOnlyAtCreation]_vars

\* a step of a saved plan has been completed and the record still shows the
\* status it had at creation
C37_Witness ==
    /\ Len(saves) = 1
    /\ saves[1].plan \in DOMAIN plans
    /\ \E i \in StepIdx(saves[1].plan) :
          /\ StepsOf(saves[1].plan)[i].status = COMPLETED
          /\ saves[1].statuses[i] = READY

\* get_next_steps, execute_step or execute_full_plan called with a plan id
\* that is not in the table
UnknownPlanCall ==
    \E pid \in PlanIdArgs \ DOMAIN plans :
        \/ GetNextSteps(pid)
        \/ \E sid \in StepIdArgs : ExecuteStep(pid, sid)
        \/ FullPlanBegin(pid)

\* execute_step called on a plan of the table with an id no step of it has
UnknownStepCall ==
    \E pid \in DOMAIN plans, sid \in StepIdArgs :
        /\ \A i \in StepIdx(pid) : StepsOf(pid)[i].id # sid
        /\ ExecuteStep(pid, sid)

\* the call has changed nothing and has ended with the value for "not found"
FailedAsValue ==
    /\ plans' = plans /\ tools' = tools /\ fp' = fp
    /\ dispatched' = dispatched /\ saves' = saves /\ trans' = <<>>
    /\ ret'.op = "execute_step" => ret' = Ret("execute_step", "value", NoValue)
    /\ ret'.op = "get_next_steps" => ret' = Ret("get_next_steps", "value", NoValue)
    /\ ret'.op = "execute_full_plan" =>
          /\ ret'.kind = "error"
          /\ ret'.value.text = "Plan not found"

\* C38: a call with an unknown plan id or an unknown step id fails as a value
\* and changes no state: execute_step returns None, get_next_steps the empty
\* list, execute_full_plan the error value "Plan not found"; none raises or
\* alters the plan table, a plan or the registry.
C38_UnknownIdsFailAsValues == [][(UnknownPlanCall \/ UnknownStepCall) => FailedAsValue]_vars

\* execute_full_plan has answered "Plan not found" for an id that is not in a
\* table that holds a plan with a READY step
C38_Witness ==
    /\ ret.op = "execute_full_plan" /\ ret.kind = "error"
    /\ ret.value.text = "Plan not found"
    /\ ret.value.plan_id \notin DOMAIN plans
    /\ \E pid \in DOMAIN plans : \E i \in StepIdx(pid) : StepsOf(pid)[i].status = READY

\* the position of the first opening brace of a text, 0 when it has none
FirstOpen(text) ==
    LET opens == {k \in 1..Len(text) : text[k] = LBrace}
    IN IF opens = {} THEN 0 ELSE CHOOSE k \in opens : \A m \in opens : k <= m

\* a closing brace stands before the first opening brace
StrayClose(text) == \E k \in 1..Len(text) : k < FirstOpen(text) /\ text[k] = RBrace

\* the first balanced top-level span from the first opening brace on that is
\* valid structured content, empty when there is none
LaterSpan(text) ==
    IF FirstOpen(text) = 0 THEN <<>>
    ELSE BraceScan(SubSeq(text, FirstOpen(text), Len(text)), 1, 0, 0)

\* C39: in a reply without fence markers, a closing brace before the first
\* opening brace does not keep the extractor from finding a later balanced
\* top-level span that is valid structured content: that span is returned.
C39_StrayCloseDoesNotHideSpan ==
    (/\ ret.op = "_extract_json"
     /\ \A k \in 1..Len(ret.value.llm_output) : ret.value.llm_output[k] # Fence
     /\ StrayClose(ret.value.llm_output)
     /\ LaterSpan(ret.value.llm_output) # <<>>)
    => ret.value.json_str = LaterSpan(ret.value.llm_output)

\* C35: when two threads run execute_step on the same plan at the same time,
\* the handler of each step is dispatched at most once, so its output and its
\* context entry are written at most once.
C35_OneDispatchPerStep ==
    \A pid \in DOMAIN plans : \A i \in StepIdx(pid) :
        Cardinality({k \in 1..Len(dispatched) :
                        dispatched[k].plan = pid /\ dispatched[k].step = i}) <= 1

====
